---- MODULE Spec2Model ----
(***************************************************************************)
(* State-machine model of the 8D step validation orchestration:            *)
(* StepService.save_step_progress / submit_section / submit_step           *)
(* (app/services/step_service.py), the verdict production and the          *)
(* full-step verdict storage of ChatbotService                             *)
(* (app/services/chatbot_service.py) and the section catalog               *)
(* (app/services/section_config.py).                                       *)
(*                                                                         *)
(* Every handler is one action: guards are the handler's early returns,    *)
(* the primed variables are what it has committed when it returns.         *)
(* Timestamps (updated_at, completed_at, validated_at) are not modelled.   *)
(***************************************************************************)
EXTENDS Integers, Sequences, FiniteSets, TLC

----------------------------------------------------------------------------
(* JSON values of a step's data document.  A value is a tagged record so   *)
(* that null, strings, objects and lists can be told apart.                *)

JNull == [kind |-> "null"]

JStr(s) == [kind |-> "str", s |-> s]

JObj(f) == [kind |-> "obj", o |-> f]

JList(l) == [kind |-> "list", l |-> l]

EmptyDict == [k \in {} |-> JNull]

\* dict.get(key): the value, None when the key is absent
Get(d, k) == IF k \in DOMAIN d THEN d[k] ELSE JNull

\* dict.get(key, ""): the default only replaces an ABSENT key, never a null
GetOrEmpty(d, k) == IF k \in DOMAIN d THEN d[k] ELSE JStr("")

\* str.strip() on the string tokens of the model: " " is whitespace only
Strip(s) == IF s = " " THEN "" ELSE s

\* Python truthiness of a JSON value
Truthy(v) ==
    CASE v.kind = "null" -> FALSE
      [] v.kind = "str"  -> v.s # ""
      [] v.kind = "obj"  -> DOMAIN v.o # {}
      [] v.kind = "list" -> Len(v.l) > 0
      [] OTHER           -> TRUE

\* {**a, **b}: top-level merge, b's keys win
MergeDict(a, b) ==
    [k \in (DOMAIN a) \cup (DOMAIN b) |-> IF k \in DOMAIN b THEN b[k] ELSE a[k]]

----------------------------------------------------------------------------
(* Section catalog (section_config.py).  Python dicts keep insertion       *)
(* order, so section keys and field names are sequences.                   *)

StepCodes == <<"D1", "D2", "D3", "D4", "D5", "D6", "D7", "D8">>

D2_SECTIONS ==
    << <<"five_w_2h", <<"problem_description", "five_w_2h">> >>,
       <<"deviation", <<"standard_applicable", "expected_situation",
                        "observed_situation", "evidence_documents">> >>,
       <<"is_is_not", <<"is_is_not_factors">> >> >>

D3_SECTIONS ==
    << <<"defected_parts", <<"defected_part_status">> >>,
       <<"suspected_parts", <<"suspected_parts_status", "alert_communicated_to",
                              "alert_number">> >>,
       <<"restart", <<"restart_production", "containment_responsible">> >> >>

D4_SECTIONS ==
    << <<"four_m_occurrence", <<"four_m_occurrence", "five_whys_occurrence",
                                "root_cause_occurrence">> >>,
       <<"four_m_non_detection", <<"four_m_non_detection", "five_whys_non_detection",
                                   "root_cause_non_detection">> >> >>

D5_SECTIONS ==
    << <<"corrective_occurrence", <<"corrective_actions_occurrence">> >>,
       <<"corrective_detection", <<"corrective_actions_detection">> >> >>

D6_SECTIONS ==
    << <<"implementation", <<"corrective_actions_occurrence",
                             "corrective_actions_detection">> >>,
       <<"monitoring_checklist", <<"monitoring", "checklist", "audited_by",
                                   "audit_date", "num_shifts">> >> >>

D7_SECTIONS ==
    << <<"prevention", <<"recurrence_risks", "replication_validations">> >>,
       <<"knowledge", <<"knowledge_base_updates", "long_term_monitoring">> >>,
       <<"lessons_learned", <<"lesson_disseminations", "ll_conclusion">> >> >>

D8_SECTIONS ==
    << <<"closure", <<"closure_statement", "signatures">> >> >>

\* STEP_SECTIONS.get(step_code): the section definitions, <<>> when not registered
STEP_SECTIONS(code) ==
    CASE code = "D2" -> D2_SECTIONS
      [] code = "D3" -> D3_SECTIONS
      [] code = "D4" -> D4_SECTIONS
      [] code = "D5" -> D5_SECTIONS
      [] code = "D6" -> D6_SECTIONS
      [] code = "D7" -> D7_SECTIONS
      [] code = "D8" -> D8_SECTIONS
      [] OTHER       -> <<>>

get_all_section_keys(code) ==
    [i \in 1..Len(STEP_SECTIONS(code)) |-> STEP_SECTIONS(code)[i][1]]

SeqToSet(q) == {q[i] : i \in 1..Len(q)}

SectionKeySet(code) == SeqToSet(get_all_section_keys(code))

\* get_section_fields: the field list; <<>> stands for the ValueError cases
get_section_fields(code, key) ==
    IF key \in SectionKeySet(code)
    THEN LET i == CHOOSE j \in 1..Len(STEP_SECTIONS(code)) : STEP_SECTIONS(code)[j][1] = key
         IN  STEP_SECTIONS(code)[i][2]
    ELSE <<>>

----------------------------------------------------------------------------
(* Step data schemas (schemas/step_data.py) for the step codes whose steps *)
(* the model instantiates: D1Data and D4Data.                              *)

TeamMemberFields == <<"name", "function", "department", "role">>

RootCauseConclusionFields == <<"root_cause", "validation_method">>

D4DataFields ==
    <<"four_m_occurrence", "five_whys_occurrence", "root_cause_occurrence",
      "four_m_non_detection", "five_whys_non_detection", "root_cause_non_detection">>

\* TeamMember(**m): the four fields are required strings
TeamMemberValid(m) ==
    /\ m.kind = "obj"
    /\ \A i \in 1..Len(TeamMemberFields) :
          /\ TeamMemberFields[i] \in DOMAIN m.o
          /\ m.o[TeamMemberFields[i]].kind = "str"

\* RootCauseConclusion(**v): both fields Optional[str]
RootCauseConclusionValid(v) ==
    \/ v.kind = "null"
    \/ /\ v.kind = "obj"
       /\ \A k \in (DOMAIN v.o) \cap SeqToSet(RootCauseConclusionFields) :
             v.o[k].kind \in {"null", "str"}

\* schema_class(**data) succeeds
SchemaValid(code, payload) ==
    CASE code = "D1" ->
           \/ "team_members" \notin DOMAIN payload
           \/ /\ payload["team_members"].kind = "list"
              /\ \A i \in 1..Len(payload["team_members"].l) :
                    TeamMemberValid(payload["team_members"].l[i])
      [] code = "D4" ->
           /\ \A k \in {"root_cause_occurrence", "root_cause_non_detection"} \cap DOMAIN payload :
                 RootCauseConclusionValid(payload[k])
           /\ \A k \in (SeqToSet(D4DataFields) \cap DOMAIN payload)
                       \ {"root_cause_occurrence", "root_cause_non_detection"} :
                 payload[k].kind \in {"null", "obj"}
      [] OTHER -> TRUE

\* model_dump of a nested model: exactly the model's fields, unset ones at None
DumpModel(v, fields) ==
    IF v.kind # "obj" THEN v
    ELSE JObj([k \in SeqToSet(fields) |-> Get(v.o, k)])

\* schema_class(**data).model_dump(mode="json"): every field of the schema,
\* the ones the caller did not send at their default; unknown keys dropped
SchemaDump(code, payload) ==
    CASE code = "D1" ->
           [k \in {"team_members"} |->
              IF k \in DOMAIN payload
              THEN JList([i \in 1..Len(payload[k].l) |->
                            DumpModel(payload[k].l[i], TeamMemberFields)])
              ELSE JList(<<>>)]
      [] code = "D4" ->
           [k \in SeqToSet(D4DataFields) |->
              IF k \notin DOMAIN payload THEN JNull
              ELSE IF k \in {"root_cause_occurrence", "root_cause_non_detection"}
                   THEN DumpModel(payload[k], RootCauseConclusionFields)
                   ELSE payload[k]]
      [] OTHER -> payload

----------------------------------------------------------------------------
(* Required-fields pre-check of submit_step (_validate_required_fields),   *)
(* for the codes of the steps the model instantiates (D1 and D4).  The     *)
(* result is "true", "false" or "raise" (an AttributeError of              *)
(* None.strip() / a non-dict member escapes the function).                 *)

\* bool(a.strip()) and bool(b.strip()) and ...: left to right, short-circuit
RECURSIVE AllStripped(_)
AllStripped(vals) ==
    IF vals = <<>> THEN "true"
    ELSE IF Head(vals).kind # "str" THEN "raise"
    ELSE IF Strip(Head(vals).s) = "" THEN "false"
    ELSE AllStripped(Tail(vals))

\* all(all(m.get(k) for k in required_member_fields) for m in members)
RECURSIVE AllMembersFilled(_)
AllMembersFilled(members) ==
    IF members = <<>> THEN "true"
    ELSE IF Head(members).kind # "obj" THEN "raise"
    ELSE IF \E k \in {"name", "function", "department"} : ~Truthy(Get(Head(members).o, k))
         THEN "false"
    ELSE AllMembersFilled(Tail(members))

\* data.get(key) or {}
OrEmptyDict(v) == IF Truthy(v) /\ v.kind = "obj" THEN v.o ELSE EmptyDict

_validate_required_fields(code, data) ==
    IF DOMAIN data = {} THEN "false"
    ELSE CASE code = "D1" ->
                LET members == Get(data, "team_members")
                IN  IF members.kind # "list" \/ Len(members.l) < 2 THEN "false"
                    ELSE AllMembersFilled(members.l)
           [] code = "D4" ->
                LET occ  == OrEmptyDict(Get(data, "root_cause_occurrence"))
                    nond == OrEmptyDict(Get(data, "root_cause_non_detection"))
                IN  AllStripped(<< GetOrEmpty(occ, "root_cause"),
                                   GetOrEmpty(occ, "validation_method"),
                                   GetOrEmpty(nond, "root_cause"),
                                   GetOrEmpty(nond, "validation_method") >>)
           [] OTHER -> "true"

----------------------------------------------------------------------------
(* Verdicts.  A message of a verdict list is a record (msg, member, arg);  *)
(* an assessment text is a record (tag, text, n).                          *)

Msg(m, i, a) == [msg |-> m, member |-> i, arg |-> a]

Note(t, n) == [tag |-> "", text |-> t, n |-> n]

\* D1LocalValidator._build_result: the fixed shape of a verdict
_build_result(decision, missing, incomplete, quality, rules, suggestions, improvements, overall) ==
    [decision           |-> decision,
     missing_fields     |-> missing,
     incomplete_fields  |-> incomplete,
     quality_issues     |-> quality,
     rules_violations   |-> rules,
     suggestions        |-> suggestions,
     field_improvements |-> improvements,
     overall_assessment |-> overall,
     language_detected  |-> "en"]

VALID_ROLES == {"production", "maintenance", "engineering", "logistics", "team_leader", "other"}

\* variant: a fifth field is required of every member
REQUIRED_MEMBER_FIELDS_with_email == <<"name", "function", "department", "role", "email">>

REQUIRED_MEMBER_FIELDS == <<"name", "function", "department", "role">>

\* str.lower() on the name tokens of the model
Lower(s) == IF s = "Ann" THEN "ann" ELSE s

MemberRoleKey(i) ==
    IF i = 1 THEN "member_1_role" ELSE IF i = 2 THEN "member_2_role"
    ELSE IF i = 3 THEN "member_3_role" ELSE "member_n_role"

\* the entries one member adds to incomplete_fields: its empty required fields
RECURSIVE MemberIncomplete(_, _, _)
MemberIncomplete(member, idx, fields) ==
    IF fields = <<>> THEN <<>>
    ELSE LET value == GetOrEmpty(member.o, Head(fields))
             bad   == value.kind # "str" \/ Strip(value.s) = ""
         IN  (IF bad THEN << Msg("empty_or_missing", idx, Head(fields)) >> ELSE <<>>)
             \o MemberIncomplete(member, idx, Tail(fields))

\* the loop over the members (lines 68-99); acc carries the loop's variables
RECURSIVE D1Loop(_, _, _)
D1Loop(members, idx, acc) ==
    IF idx > Len(members) THEN acc
    ELSE LET member == members[idx] IN
         IF member.kind # "obj"
         THEN D1Loop(members, idx + 1,
                     [acc EXCEPT !.incomplete = @ \o << Msg("must_be_dict", idx, "") >>])
         ELSE
         LET role     == GetOrEmpty(member.o, "role")
             badRole  == Truthy(role) /\ (role.kind # "str" \/ role.s \notin VALID_ROLES)
             isLeader == role = JStr("team_leader")
             nameV    == GetOrEmpty(member.o, "name")
         IN  IF nameV.kind # "str"
             THEN [acc EXCEPT !.raised = TRUE]
             ELSE
             LET name == Lower(Strip(nameV.s))
                 dup  == name # "" /\ name \in acc.seen_names
             IN  D1Loop(members, idx + 1,
                   [incomplete   |-> acc.incomplete
                                      \o MemberIncomplete(member, idx, REQUIRED_MEMBER_FIELDS),
                    quality      |-> acc.quality
                                      \o (IF badRole
                                          THEN << Msg("invalid_role", idx,
                                                      IF role.kind = "str" THEN role.s ELSE "") >>
                                          ELSE <<>>)
                                      \o (IF dup THEN << Msg("duplicate_name", idx, nameV.s) >>
                                          ELSE <<>>),
                    improvements |-> IF badRole
                                     THEN MergeDict(acc.improvements,
                                            [k \in {MemberRoleKey(idx)} |-> "use_one_of_valid_roles"])
                                     ELSE acc.improvements,
                    seen_names   |-> IF name # "" THEN acc.seen_names \cup {name}
                                     ELSE acc.seen_names,
                    leader_count |-> acc.leader_count + (IF isLeader THEN 1 ELSE 0),
                    raised       |-> acc.raised])

RaisedVerdict ==
    _build_result("raise", <<>>, <<>>, <<>>, <<>>, <<>>, [k \in {} |-> ""], Note("", 0))

\* D1LocalValidator.validate; decision "raise" stands for an escaping exception
D1LocalValidator_validate(step_data) ==
    LET membersV == Get(step_data, "team_members") IN
    IF membersV.kind # "list"
    THEN _build_result("fail", << Msg("team_members", 0, "") >>, <<>>, <<>>, <<>>, <<>>,
                       [k \in {} |-> ""], Note("missing_or_not_a_list", 0))
    ELSE
    LET members == membersV.l
        few     == Len(members) < 2
        acc     == D1Loop(members, 1,
                     [incomplete   |-> IF few THEN << Msg("at_least_2_members", 0, "") >> ELSE <<>>,
                      quality      |-> <<>>,
                      improvements |-> [k \in {} |-> ""],
                      seen_names   |-> {},
                      leader_count |-> 0,
                      raised       |-> FALSE])
        noLeader   == acc.leader_count = 0 /\ Len(members) >= 2
        manyLeader == ~noLeader /\ acc.leader_count > 1
        incomplete == acc.incomplete
                        \o (IF noLeader THEN << Msg("no_team_leader", 0, "") >> ELSE <<>>)
        quality    == acc.quality
                        \o (IF manyLeader THEN << Msg("too_many_leaders", acc.leader_count, "") >>
                            ELSE <<>>)
        suggestions == (IF few THEN << Msg("add_more_members", 0, "") >> ELSE <<>>)
                        \o (IF noLeader THEN << Msg("assign_team_leader", 0, "") >> ELSE <<>>)
        has_issues == incomplete # <<>> \/ quality # <<>>
    IN  IF acc.raised THEN RaisedVerdict
        ELSE _build_result(IF has_issues THEN "fail" ELSE "pass",
                           <<>>, incomplete, quality, <<>>, suggestions, acc.improvements,
                           IF has_issues
                           THEN Note("needs_corrections", Len(incomplete) + Len(quality))
                           ELSE Note("validated", Len(members)))

----------------------------------------------------------------------------
(* Outcomes of the model-backed validator (ChatbotService._validate_with_ai): *)
(* the knowledge base lookup, the model call and the response parser are      *)
(* outside the state machine, so an outcome is chosen nondeterministically:   *)
(* a parsed verdict, or one of the three exception classes that submit_step   *)
(* and submit_section tell apart.                                             *)

MaxVariant == 1

Decisions == {"pass", "fail"}

\* a verdict as ResponseParser.parse returns it: a pass without findings, or
\* the n-th of the failing verdicts, which differ in their findings
AIVerdict(d, n) ==
    IF d = "pass"
    THEN _build_result("pass", <<>>, <<>>, <<>>, <<>>, << Msg("ai_suggestion", 0, "") >>,
                       [k \in {} |-> ""], Note("pass", 0))
    ELSE _build_result("fail",
                       << Msg("ai_missing", n, "") >>,
                       << Msg("ai_incomplete", n, "") >>,
                       << Msg("ai_quality", n, "") >>,
                       << Msg("ai_rule", n, "") >>,
                       << Msg("ai_suggestion", n, "") >>,
                       [k \in {"field"} |-> "rewrite"],
                       Note("fail", n))

Outcome(err, v) == [error |-> err, verdict |-> v]

AIOutcomes ==
    {Outcome("", AIVerdict(d, n)) : d \in Decisions, n \in 1..MaxVariant}
      \cup {Outcome(e, RaisedVerdict) : e \in {"ValueError", "RuntimeError", "Exception"}}

\* variant: no step is validated locally, D1 goes to the model as well
LOCAL_VALIDATION_STEPS_none == {}

LOCAL_VALIDATION_STEPS == {"D1"}

\* ChatbotService.validate_step up to the verdict (lines 1114-1138)
ValidateOutcomes(base_code, step_data) ==
    IF DOMAIN step_data = {} THEN {Outcome("ValueError", RaisedVerdict)}
    ELSE IF base_code \in LOCAL_VALIDATION_STEPS
         THEN LET v == D1LocalValidator_validate(step_data)
              IN  IF v.decision = "raise" THEN {Outcome("Exception", RaisedVerdict)}
                  ELSE {Outcome("", v)}
         ELSE AIOutcomes

\* the HTTP status the except clauses of the two submit handlers map an error to
ErrorStatus(err) == IF err = "RuntimeError" THEN 503 ELSE 500

----------------------------------------------------------------------------
(* The model-backed validator in detail: the coaching lookup in the         *)
(* knowledge base, the model call and ResponseParser.parse.  A step_code is *)
(* the sequence of its base code and, for a section call, the section key   *)
(* ("D4_four_m_occurrence" is <<"D4", "four_m_occurrence">>); the knowledge *)
(* base is the set of step_codes under whose hint it holds coaching text.   *)

\* variant: no fallback to the coaching text of the parent step
get_step_coaching_content_strict(step_code, kb) ==
    IF step_code \in kb THEN step_code ELSE <<>>

\* KnowledgeBaseRetriever.get_step_coaching_content: the step_code whose
\* coaching text is returned, <<>> for the ValueError
get_step_coaching_content(step_code, kb) ==
    IF step_code \in kb THEN step_code
    ELSE IF Len(step_code) = 2 /\ << step_code[1] >> \in kb THEN << step_code[1] >>
    ELSE <<>>

\* a text json.loads parses to the value v
JsonText(v) == [form |-> "json", span |-> "", v |-> v]

\* a text json.loads rejects; span tells what re.search(r"\{.*\}") finds in it:
\* "none", a "garbled" span that is no JSON either, or the "object" v
ProseText(span, v) == [form |-> "prose", span |-> span, v |-> v]

\* OpenAIClient.validate_step raised OpenAIError
ApiError == [form |-> "api_error", span |-> "", v |-> JNull]

\* "decision = data.get('decision'); if decision not in {'pass', 'fail'}: raise
\* ValueError": the decision, or the error raised (TypeError for a value the
\* set cannot hash)
ParseDecision(decision) ==
    IF decision.kind \in {"list", "obj"} THEN "TypeError"
    ELSE IF decision \in {JStr("pass"), JStr("fail")} THEN decision.s
    ELSE "ValueError"

\* dict.get(key, default)
GetOr(d, k, default) == IF k \in DOMAIN d THEN d[k] ELSE default

\* variant: the verdict has no language_detected
ParsedVerdict_without_language(decision, data) ==
    [decision           |-> decision,
     missing_fields     |-> GetOr(data, "missing_fields", <<>>),
     incomplete_fields  |-> GetOr(data, "incomplete_fields", <<>>),
     quality_issues     |-> GetOr(data, "quality_issues", <<>>),
     rules_violations   |-> GetOr(data, "rules_violations", <<>>),
     suggestions        |-> GetOr(data, "suggestions", <<>>),
     field_improvements |-> GetOr(data, "field_improvements", [k \in {} |-> ""]),
     overall_assessment |-> GetOr(data, "overall_assessment", Note("", 0))]

\* the dictionary ResponseParser.parse returns (lines 1026-1036)
ParsedVerdict(decision, data) ==
    [decision           |-> decision,
     missing_fields     |-> GetOr(data, "missing_fields", <<>>),
     incomplete_fields  |-> GetOr(data, "incomplete_fields", <<>>),
     quality_issues     |-> GetOr(data, "quality_issues", <<>>),
     rules_violations   |-> GetOr(data, "rules_violations", <<>>),
     suggestions        |-> GetOr(data, "suggestions", <<>>),
     field_improvements |-> GetOr(data, "field_improvements", [k \in {} |-> ""]),
     overall_assessment |-> GetOr(data, "overall_assessment", Note("", 0)),
     language_detected  |-> GetOr(data, "language_detected", "en")]

\* ResponseParser.parse(ai_text)
ResponseParser_parse(ai_text) ==
    IF ai_text.form = "prose" /\ ai_text.span # "object"
    THEN Outcome("ValueError", RaisedVerdict)
    ELSE IF ai_text.v.kind # "obj"
    THEN Outcome("AttributeError", RaisedVerdict)
    ELSE LET data     == ai_text.v.o
             decision == ParseDecision(Get(data, "decision"))
         IN  IF decision \notin Decisions
             THEN Outcome(decision, RaisedVerdict)
             ELSE Outcome("", ParsedVerdict(decision, data))

\* what one invocation of the validator met and did
Run(out, kb, reply, coaching, prompted) ==
    [error |-> out.error, verdict |-> out.verdict, kb |-> kb, reply |-> reply,
     coaching |-> coaching, prompted |-> prompted]

\* ChatbotService._validate_with_ai(step_code, report_step_id, step_data)
\* with the knowledge base kb and the model answering reply
_validate_with_ai(step_code, kb, reply) ==
    LET coaching == get_step_coaching_content(step_code, kb)
    IN  IF coaching = <<>>
        THEN Run(Outcome("ValueError", RaisedVerdict), kb, reply, coaching, FALSE)
        ELSE IF reply = ApiError
        THEN Run(Outcome("RuntimeError", RaisedVerdict), kb, reply, coaching, TRUE)
        ELSE Run(ResponseParser_parse(reply), kb, reply, coaching, TRUE)

\* ChatbotService.validate_step up to the verdict (lines 1114-1138), with the
\* knowledge base and the model's reply given
ValidateRun(step_code, step_data, kb, reply) ==
    IF DOMAIN step_data = {}
    THEN Run(Outcome("ValueError", RaisedVerdict), kb, reply, <<>>, FALSE)
    ELSE IF step_code[1] \in LOCAL_VALIDATION_STEPS
         THEN LET v == D1LocalValidator_validate(step_data)
              IN  Run(IF v.decision = "raise" THEN Outcome("Exception", RaisedVerdict)
                                              ELSE Outcome("", v),
                      kb, reply, <<>>, FALSE)
         ELSE _validate_with_ai(step_code, kb, reply)

----------------------------------------------------------------------------
(* The step_validation table.  The operators below take the rows of the   *)
(* table in insertion order.                                               *)

NullKey == "<NULL>"

\* json.dumps of the improvements dict, and json.loads of the stored text
JsonDumps(f) == {<<k, f[k]>> : k \in DOMAIN f}

JsonLoads(t) == [k \in {p[1] : p \in t} |-> (CHOOSE p \in t : p[1] = k)[2]]

\* the column values both upserts compute from a verdict
VerdictRow(step_id, section_key, v) ==
    [report_step_id       |-> step_id,
     section_key          |-> section_key,
     decision             |-> v.decision,
     missing              |-> v.missing_fields,
     issues               |-> v.incomplete_fields \o v.quality_issues \o v.rules_violations,
     suggestions          |-> v.suggestions,
     professional_rewrite |-> JsonDumps(v.field_improvements),
     notes                |-> << v.overall_assessment >>]

\* variant: an existing row keeps its decision
UpdateRow_keeps_decision(tbl, i, new) ==
    [tbl EXCEPT ![i] = [new EXCEPT !.section_key = tbl[i].section_key,
                                   !.decision = tbl[i].decision]]

\* write the columns of new into row i, which keeps its section_key
UpdateRow(tbl, i, new) ==
    [tbl EXCEPT ![i] = [new EXCEPT !.section_key = tbl[i].section_key]]

\* variant: the verdict is always added as a new row
UpsertResults_always_insert(tbl, matching, new) == {Append(tbl, new)}

\* "existing = query.first(); if existing: update else: add": first() has no
\* ORDER BY, so any matching row may be the one updated
UpsertResults(tbl, matching, new) ==
    IF matching = {} THEN {Append(tbl, new)}
    ELSE {UpdateRow(tbl, i, new) : i \in matching}

\* ValidationStorage.store_validation: the lookup filters on the step only
store_validation(tbl, report_step_id, v) ==
    UpsertResults(tbl,
        {i \in DOMAIN tbl : tbl[i].report_step_id = report_step_id},
        VerdictRow(report_step_id, NullKey, v))

\* StepService._upsert_section_validation
_upsert_section_validation(tbl, step_id, section_key, v) ==
    UpsertResults(tbl,
        {i \in DOMAIN tbl : /\ tbl[i].report_step_id = step_id
                            /\ tbl[i].section_key = section_key},
        VerdictRow(step_id, section_key, v))

\* the per-section rows of a step, in table order
SectionRows(tbl, step_id) ==
    SelectSeq(tbl, LAMBDA r : r.report_step_id = step_id /\ r.section_key # NullKey)

\* passed_map.get(k): a later row of the same key replaces an earlier one
RECURSIVE PassedMapGet(_, _)
PassedMapGet(rows, k) ==
    IF rows = <<>> THEN "none"
    ELSE IF rows[Len(rows)].section_key = k THEN rows[Len(rows)].decision
    ELSE PassedMapGet(SubSeq(rows, 1, Len(rows) - 1), k)

\* variant: a section without a row is not counted as remaining
_get_section_status_ignores_missing(tbl, step_id, all_keys) ==
    LET rows == SectionRows(tbl, step_id)
    IN  [passed    |-> SelectSeq(all_keys, LAMBDA k : PassedMapGet(rows, k) = "pass"),
         remaining |-> SelectSeq(all_keys, LAMBDA k : PassedMapGet(rows, k) = "fail")]

\* StepService._get_section_status
_get_section_status(tbl, step_id, all_keys) ==
    LET rows == SectionRows(tbl, step_id)
    IN  [passed    |-> SelectSeq(all_keys, LAMBDA k : PassedMapGet(rows, k) = "pass"),
         remaining |-> SelectSeq(all_keys, LAMBDA k : PassedMapGet(rows, k) # "pass")]

RECURSIVE Concat(_, _)
Concat(rows, col) ==
    IF rows = <<>> THEN <<>> ELSE rows[1][col] \o Concat(Tail(rows), col)

RECURSIVE CombinedImprovements(_)
CombinedImprovements(rows) ==
    IF rows = <<>> THEN [k \in {} |-> ""]
    ELSE MergeDict(CombinedImprovements(SubSeq(rows, 1, Len(rows) - 1)),
                   JsonLoads(rows[Len(rows)].professional_rewrite))

\* StepService._write_full_step_validation_from_sections
_write_full_step_validation_from_sections(tbl, step_id) ==
    LET rows == SectionRows(tbl, step_id)
        new  == [report_step_id       |-> step_id,
                 section_key          |-> NullKey,
                 decision             |-> "pass",
                 missing              |-> Concat(rows, "missing"),
                 issues               |-> Concat(rows, "issues"),
                 suggestions          |-> Concat(rows, "suggestions"),
                 professional_rewrite |-> JsonDumps(CombinedImprovements(rows)),
                 notes                |-> [i \in 1..Len(rows) |->
                                             [rows[i].notes[1] EXCEPT !.tag = rows[i].section_key]]]
    IN  UpsertResults(tbl,
            {i \in DOMAIN tbl : /\ tbl[i].report_step_id = step_id
                                /\ tbl[i].section_key = NullKey},
            new)

\* StepService.get_step_validation (the second definition of that name, which
\* is the one the class keeps): the rows "filter(section_key IS NULL).first()"
\* may return, "none" when there is no such row
get_step_validation(tbl, step_id) ==
    LET matching == {i \in DOMAIN tbl : /\ tbl[i].report_step_id = step_id
                                        /\ tbl[i].section_key = NullKey}
    IN  IF matching = {} THEN {"none"} ELSE {tbl[i].decision : i \in matching}

----------------------------------------------------------------------------
(* The state: one complaint with its report and the report's steps.  A     *)
(* step's id is its step code.                                             *)

\* the steps of the report that the model instantiates
Steps == {"D1", "D4"}

\* a step id no row of report_steps has
UnknownStepId == "none"

StepIdInputs == Steps \cup {UnknownStepId}

\* section_key inputs for a step: the keys registered for its code and a key
\* that is registered for another code only
SectionKeyInputs(step_id) == SectionKeySet(step_id) \cup {"closure"}

Member(name, function, role) ==
    JObj([name |-> JStr(name), function |-> JStr(function),
          department |-> JStr("quality"), role |-> JStr(role)])

Team(members) == [team_members |-> JList(members)]

RootCause(rc, vm) == JObj([root_cause |-> rc, validation_method |-> vm])

\* the request bodies of save_step_progress
Payloads(code) ==
    CASE code = "D1" ->
           { Team(<< Member("Ann", "lead", "team_leader"), Member("bob", "op", "production") >>),
             Team(<< Member("Ann", "lead", "team_leader"), Member("bob", "op", "team_leader") >>),
             [team_members |-> JStr("Ann")] }
      [] code = "D4" ->
           { [root_cause_occurrence    |-> RootCause(JStr("worn tool"), JStr("test")),
              root_cause_non_detection |-> RootCause(JStr("no gauge"), JStr("audit"))],
             [root_cause_occurrence    |-> JObj([root_cause |-> JStr("worn tool")])],
             [root_cause_occurrence    |-> JStr("worn tool")] }
      [] OTHER -> { EmptyDict }

VARIABLES
    status,           \* ReportStep.status of every step
    data,             \* ReportStep.data of every step
    validations,      \* the step_validation table, the rows of every step in insertion order
    complaint_status, \* Complaint.status of the owning complaint
    inflight,         \* the steps with a submit_step request between its two commits
    last,             \* the last completed call and its response
    recent,           \* per section, the decision its last completed submit_section returned
    tables,           \* the complaints, reports and report_steps rows as they were created
    pending,          \* the submit_section requests between their lookup and their commit
    request,          \* the step_data of the latest POST /validate-step request body
    backend           \* the latest validator run made with a given knowledge base and reply

vars == <<status, data, validations, complaint_status, inflight, last, recent, tables, pending,
          request, backend>>

\* what only the creation operations, the concurrent section submits, the
\* direct validation endpoint and the submits with a given backend write
aux == <<tables, pending, request, backend>>

db == <<status, data, validations, complaint_status>>

NoSections == [passed |-> <<>>, remaining |-> <<>>]

\* a call and what it returned; validator_calls counts the invocations of
\* ChatbotService.validate_step made by the call
Response(op, step_id, section_key, http, calls, validation, section_status) ==
    [op                  |-> op,
     step_id             |-> step_id,
     section_key         |-> section_key,
     http                |-> http,
     validator_calls     |-> calls,
     validation          |-> validation,
     all_sections_passed |-> op = "submit_section" /\ http = 200
                               /\ Len(section_status.remaining) = 0,
     passed_sections     |-> section_status.passed,
     remaining_sections  |-> section_status.remaining]

EmptyTables == [complaints |-> <<>>, reports |-> <<>>, report_steps |-> <<>>]

\* the i-th of the 8 ReportStep rows both creation operations add for a report
NewStep(t, report_id, i) ==
    [id        |-> Len(t.report_steps) + i,
     report_id |-> report_id,
     step_code |-> StepCodes[i],
     status    |-> "draft",
     data      |-> EmptyDict]

NoDuplicate(q) == \A i, j \in DOMAIN q : q[i] = q[j] => i = j

\* variant: the tables carry no uniqueness or foreign key constraint
ConstraintsOK_none(t) == TRUE

\* the constraints a flush or commit enforces: complaints.reference_number,
\* reports.report_number and reports.complaint_id unique, reports.complaint_id
\* a foreign key, report_steps (report_id, step_code) unique
ConstraintsOK(t) ==
    /\ NoDuplicate([i \in DOMAIN t.complaints |-> t.complaints[i].reference_number])
    /\ NoDuplicate([i \in DOMAIN t.reports |-> t.reports[i].report_number])
    /\ NoDuplicate([i \in DOMAIN t.reports |-> t.reports[i].complaint_id])
    /\ \A i \in DOMAIN t.reports :
          \E j \in DOMAIN t.complaints : t.complaints[j].id = t.reports[i].complaint_id
    /\ NoDuplicate([i \in DOMAIN t.report_steps |->
                      <<t.report_steps[i].report_id, t.report_steps[i].step_code>>])

\* the tables after ComplaintService.create_complaint; a constraint
\* violation raises before the only commit, which leaves the tables as they were
TablesAfterCreateComplaint(t, reference_number, report_number) ==
    LET complaint_id == Len(t.complaints) + 1
        report_id    == Len(t.reports) + 1
        new == [complaints   |-> Append(t.complaints,
                                   [id |-> complaint_id,
                                    reference_number |-> reference_number,
                                    status |-> "open"]),
                reports      |-> Append(t.reports,
                                   [id |-> report_id,
                                    complaint_id |-> complaint_id,
                                    report_number |-> report_number,
                                    status |-> "draft"]),
                report_steps |-> t.report_steps \o
                                   [i \in 1..Len(StepCodes) |-> NewStep(t, report_id, i)]]
    IN  IF ConstraintsOK(new) THEN new ELSE t

\* the tables after ReportService.create_report_from_complaint
TablesAfterCreateReport(t, complaint_id, report_number) ==
    LET report_id == Len(t.reports) + 1
        new == [complaints   |-> t.complaints,
                reports      |-> Append(t.reports,
                                   [id |-> report_id,
                                    complaint_id |-> complaint_id,
                                    report_number |-> report_number,
                                    status |-> "draft"]),
                report_steps |-> t.report_steps \o
                                   [i \in 1..Len(StepCodes) |-> NewStep(t, report_id, i)]]
    IN  IF ConstraintsOK(new) THEN new ELSE t

\* generate_complaint_number draws 5 random digits: the numbers a call may draw
ReferenceNumbers == {"C-00001", "C-00002", "C-00003", "C-00004", "C-00005"}

\* generate_report_number formats the wall clock to the second: the seconds
\* at which a creation may run
MaxClock == 5

Clock == 1..MaxClock

\* the complaints created before creation stops being requested
MaxComplaints == 4

\* the complaint whose report holds the steps of Steps
FirstComplaint == TablesAfterCreateComplaint(EmptyTables, "C-00001", 1)

\* the state after ComplaintService.create_complaint has created the first
\* complaint: its steps are draft and empty; kb is what the knowledge base holds
InitWith(kb) ==
    /\ tables = FirstComplaint
    /\ pending = <<>>
    /\ request = EmptyDict
    /\ backend = Run(Outcome("", RaisedVerdict), kb, ApiError, <<>>, FALSE)
    /\ status = [s \in Steps |-> "draft"]
    /\ data = [s \in Steps |-> EmptyDict]
    /\ validations = [s \in Steps |-> <<>>]
    /\ complaint_status = "open"
    /\ inflight = {}
    /\ last = Response("create_complaint", UnknownStepId, "", 201, 0, RaisedVerdict, NoSections)
    /\ recent = [s \in Steps |-> [k \in SectionKeySet(s) |-> "none"]]

\* the knowledge base plays no part where the validator's outcome is chosen
\* freely
Init == InitWith({})

\* a handler that raises HTTPException before it has written anything
Rejected(op, step_id, section_key, http) ==
    /\ last' = Response(op, step_id, section_key, http, 0, RaisedVerdict, NoSections)
    /\ UNCHANGED <<db, inflight, recent, aux>>

\* variant: saving is refused outside the statuses submit_step accepts
SaveGuardFails_like_submit_step(step_status) == step_status \notin {"draft", "rejected"}

\* save_step_progress reads step.status nowhere: no status refuses a save
SaveGuardFails(step_status) == FALSE

\* StepService.save_step_progress(db, step_id, data, validate_schema=True)
save_step_progress(step_id, payload) ==
    IF step_id \notin Steps
    THEN Rejected("save_step_progress", step_id, "", 404)
    ELSE IF SaveGuardFails(status[step_id])
    THEN Rejected("save_step_progress", step_id, "", 400)
    ELSE IF ~SchemaValid(step_id, payload)
    THEN Rejected("save_step_progress", step_id, "", 422)
    ELSE /\ data' = [data EXCEPT ![step_id] = MergeDict(@, SchemaDump(step_id, payload))]
         /\ last' = Response("save_step_progress", step_id, "", 200, 0, RaisedVerdict, NoSections)
         /\ UNCHANGED <<status, validations, complaint_status, inflight, recent, aux>>

\* variant: a field the document lacks is left out of the slice
SectionSlice_omits_absent(full_data, fields) ==
    [k \in SeqToSet(fields) \cap DOMAIN full_data |-> full_data[k]]

\* {k: full_data.get(k) for k in fields}
SectionSlice(full_data, fields) == [k \in SeqToSet(fields) |-> Get(full_data, k)]

\* variant: the status guard of submit_step is used for sections too
SectionGuardFails_like_submit_step(step_status, step_code, section_key) ==
    \/ step_status \notin {"draft", "rejected"}
    \/ step_code = "D1"
    \/ Len(STEP_SECTIONS(step_code)) = 0
    \/ section_key \notin SectionKeySet(step_code)

\* the HTTP 400 guards of submit_section
SectionGuardFails(step_status, step_code, section_key) ==
    \/ step_status \notin {"draft", "rejected", "submitted"}
    \/ step_code = "D1"
    \/ Len(STEP_SECTIONS(step_code)) = 0
    \/ section_key \notin SectionKeySet(step_code)

\* variant: a section submit that does not complete the step rejects it
StatusAfterSection_rejects(old_status, all_sections_passed) ==
    IF all_sections_passed THEN "validated" ELSE "rejected"

\* "if all_sections_passed: step.status = 'validated'"
StatusAfterSection(old_status, all_sections_passed) ==
    IF all_sections_passed THEN "validated" ELSE old_status

\* variant: the complaint is advanced outside the "validated" branch
ComplaintAfter_always(old_status, step_code, validated) == step_code

\* "complaint.status = step.step_code", reached only when the step is validated
ComplaintAfter(old_status, step_code, validated) ==
    IF validated THEN step_code ELSE old_status

\* submit_section from its first commit on (lines 196-230): stored is the
\* table as that commit leaves it
SubmitSectionFinish(step_id, section_key, verdict, stored) ==
    LET st == _get_section_status(stored, step_id, get_all_section_keys(step_id))
        all_sections_passed == Len(st.remaining) = 0
    IN  /\ IF all_sections_passed
           THEN \E written \in _write_full_step_validation_from_sections(stored, step_id) :
                   validations' = [validations EXCEPT ![step_id] = written]
           ELSE validations' = [validations EXCEPT ![step_id] = stored]
        /\ status' = [status EXCEPT ![step_id] = StatusAfterSection(@, all_sections_passed)]
        /\ complaint_status' = ComplaintAfter(complaint_status, step_id, all_sections_passed)
        /\ last' = Response("submit_section", step_id, section_key, 200, 1, verdict, st)
        /\ recent' = [recent EXCEPT ![step_id][section_key] = verdict.decision]
        /\ UNCHANGED <<data, inflight, tables, request>>

\* StepService.submit_section(db, step_id, section_key)
submit_section(step_id, section_key) ==
    IF step_id \notin Steps
    THEN Rejected("submit_section", step_id, section_key, 404)
    ELSE IF SectionGuardFails(status[step_id], step_id, section_key)
    THEN Rejected("submit_section", step_id, section_key, 400)
    ELSE
    \E out \in ValidateOutcomes(step_id,
                 SectionSlice(data[step_id], get_section_fields(step_id, section_key))) :
      IF out.error # ""
      THEN /\ last' = Response("submit_section", step_id, section_key,
                               ErrorStatus(out.error), 1, RaisedVerdict, NoSections)
           /\ UNCHANGED <<db, inflight, recent, aux>>
      ELSE
      \E stored \in _upsert_section_validation(validations[step_id], step_id, section_key,
                                                out.verdict) :
         /\ SubmitSectionFinish(step_id, section_key, out.verdict, stored)
         /\ UNCHANGED <<pending, backend>>

\* the uniqueness constraint uq_step_validation_step_section on
\* (report_step_id, section_key): two NULLs are distinct, so it only binds
\* rows whose section_key is set
UniqueOK(tbl) ==
    \A i, j \in DOMAIN tbl :
       ( /\ i # j
         /\ tbl[i].report_step_id = tbl[j].report_step_id
         /\ tbl[i].section_key = tbl[j].section_key )
          => tbl[i].section_key = NullKey

\* the two callers whose submit_section requests may overlap
Requests == {1, 2}

\* the step ids of overlapping section submits: the step with sections, and
\* an id no step has
RaceStepInputs == {"D4", UnknownStepId}

\* the row "existing = query.filter(report_step_id, section_key).first()"
\* returns to a request, 0 for None
LookupExisting(tbl, step_id, section_key) ==
    LET matching == {i \in DOMAIN tbl : /\ tbl[i].report_step_id = step_id
                                        /\ tbl[i].section_key = section_key}
    IN  IF matching = {} THEN {0} ELSE matching

\* submit_section of request r up to its first commit: the guards, the
\* validator call and the lookup of _upsert_section_validation, whose write is
\* staged in the request's own session
submit_section_begin(r, step_id, section_key) ==
    /\ r \notin DOMAIN pending
    /\ IF step_id \notin Steps
       THEN Rejected("submit_section", step_id, section_key, 404)
       ELSE IF SectionGuardFails(status[step_id], step_id, section_key)
       THEN Rejected("submit_section", step_id, section_key, 400)
       ELSE
       \E out \in ValidateOutcomes(step_id,
                    SectionSlice(data[step_id], get_section_fields(step_id, section_key))) :
         IF out.error # ""
         THEN /\ last' = Response("submit_section", step_id, section_key,
                                  ErrorStatus(out.error), 1, RaisedVerdict, NoSections)
              /\ UNCHANGED <<db, inflight, recent, aux>>
         ELSE \E existing \in LookupExisting(validations[step_id], step_id, section_key) :
                 /\ pending' = [q \in DOMAIN pending \cup {r} |->
                                  IF q = r
                                  THEN [step_id |-> step_id, section_key |-> section_key,
                                        verdict |-> out.verdict, existing |-> existing,
                                        loaded |-> IF existing = 0 THEN <<>>
                                                   ELSE validations[step_id][existing]]
                                  ELSE pending[q]]
                 /\ UNCHANGED <<db, inflight, last, recent, tables, request, backend>>

\* the table a request's staged write yields when its commit flushes it. With
\* no row found a row is inserted. A row found is updated in place, and the
\* UPDATE names only the columns whose assigned value differs from the value
\* the request had loaded: the other columns keep what the table holds now
StagedWrite(tbl, p) ==
    LET new == VerdictRow(p.step_id, p.section_key, p.verdict)
    IN  IF p.existing = 0
        THEN Append(tbl, new)
        ELSE UpdateRow(tbl, p.existing,
                       [col \in DOMAIN new |->
                          IF new[col] = p.loaded[col] THEN tbl[p.existing][col]
                                                      ELSE new[col]])

\* submit_section of request r from "db.commit()" (line 196) to its return; an
\* insert that breaks the uniqueness constraint makes the commit raise
\* IntegrityError, which submit_section does not catch
submit_section_commit(r) ==
    /\ r \in DOMAIN pending
    /\ pending' = [q \in DOMAIN pending \ {r} |-> pending[q]]
    /\ UNCHANGED backend
    /\ LET p      == pending[r]
           stored == StagedWrite(validations[p.step_id], p)
       IN  IF UniqueOK(stored)
           THEN SubmitSectionFinish(p.step_id, p.section_key, p.verdict, stored)
           ELSE /\ last' = Response("submit_section", p.step_id, p.section_key, 500, 1,
                                    RaisedVerdict, NoSections)
                /\ UNCHANGED <<db, inflight, recent, tables, request>>

\* variant: the status guard of submit_section is used for the full step too
StepGuardFails_like_submit_section(step_status) ==
    step_status \notin {"draft", "rejected", "submitted"}

\* "if step.status not in ('draft', 'rejected')": HTTP 400
StepGuardFails(step_status) == step_status \notin {"draft", "rejected"}

\* variant: the result of the pre-check is not acted upon
PreCheckRejects_never(step_code, step_data) == FALSE

\* "if not _validate_required_fields(...)": HTTP 422
PreCheckRejects(step_code, step_data) ==
    _validate_required_fields(step_code, step_data) = "false"

\* variant: a failing verdict sends the step back to draft
StatusAfterStep_draft_on_fail(decision) ==
    IF decision = "pass" THEN "validated" ELSE "draft"

\* the status submit_step gives the step for a verdict
StatusAfterStep(decision) == IF decision = "pass" THEN "validated" ELSE "rejected"

\* variant: the except clauses re-raise without resetting the status
StatusAfterError_keeps(committed_status) == committed_status

\* the except clauses of submit_step: rollback, step.status = 'draft', commit
StatusAfterError(committed_status) == "draft"

\* submit_step from its first commit on (the try block and the except clauses);
\* committed is the status column as the first commit left it
SubmitStepFinish(step_id, committed) ==
    \E out \in ValidateOutcomes(step_id, data[step_id]) :
      IF out.error # ""
      THEN /\ status' = [committed EXCEPT ![step_id] = StatusAfterError(@)]
           /\ last' = Response("submit_step", step_id, "", ErrorStatus(out.error), 1,
                               RaisedVerdict, NoSections)
           /\ UNCHANGED <<data, validations, complaint_status, recent, aux>>
      ELSE /\ \E stored \in store_validation(validations[step_id], step_id, out.verdict) :
                 validations' = [validations EXCEPT ![step_id] = stored]
           /\ status' = [committed EXCEPT ![step_id] = StatusAfterStep(out.verdict.decision)]
           /\ complaint_status' = ComplaintAfter(complaint_status, step_id,
                                                 out.verdict.decision = "pass")
           /\ last' = Response("submit_step", step_id, "", 200, 1, out.verdict, NoSections)
           /\ UNCHANGED <<data, recent, aux>>

\* the guards of submit_step (lines 242-256); TRUE when the call is refused
SubmitStepRefused(step_id) ==
    \/ step_id \notin Steps /\ Rejected("submit_step", step_id, "", 404)
    \/ /\ step_id \in Steps
       /\ IF StepGuardFails(status[step_id])
          THEN Rejected("submit_step", step_id, "", 400)
          ELSE IF PreCheckRejects(step_id, data[step_id])
          THEN Rejected("submit_step", step_id, "", 422)
          ELSE /\ _validate_required_fields(step_id, data[step_id]) = "raise"
               /\ Rejected("submit_step", step_id, "", 500)

\* variant: the status guard does not stop the call
SubmitStepAccepted_any_status(step_id) ==
    /\ step_id \in Steps
    /\ ~PreCheckRejects(step_id, data[step_id])
    /\ _validate_required_fields(step_id, data[step_id]) # "raise"

\* the call passes the guards of submit_step
SubmitStepAccepted(step_id) ==
    /\ step_id \in Steps
    /\ ~StepGuardFails(status[step_id])
    /\ ~PreCheckRejects(step_id, data[step_id])
    /\ _validate_required_fields(step_id, data[step_id]) # "raise"

\* StepService.submit_step(db, step_id), run from its first line to its return
submit_step(step_id) ==
    \/ SubmitStepRefused(step_id)
    \/ /\ SubmitStepAccepted(step_id)
       /\ SubmitStepFinish(step_id, [status EXCEPT ![step_id] = "submitted"])
       /\ UNCHANGED inflight

\* submit_step up to "step.status = 'submitted'; db.commit()" (line 260)
submit_step_begin(step_id) ==
    /\ SubmitStepAccepted(step_id)
    /\ status' = [status EXCEPT ![step_id] = "submitted"]
    /\ inflight' = inflight \cup {step_id}
    /\ UNCHANGED <<data, validations, complaint_status, last, recent, aux>>

\* the rest of submit_step, run while other requests have been served
submit_step_finish(step_id) ==
    /\ step_id \in inflight
    /\ SubmitStepFinish(step_id, status)
    /\ inflight' = inflight \ {step_id}

\* the table rows a step may hold before reject_step / approve_step stop
\* being issued (both append without limit)
MaxRows == 2

\* StepValidation(report_step_id=..., decision=...) as reject_step and
\* approve_step build it: section_key is left NULL; a column left NULL is held
\* as the code reads it back ("row.missing or []", "row.notes or ''")
ManualRow(step_id, decision, issues) ==
    [report_step_id       |-> step_id,
     section_key          |-> NullKey,
     decision             |-> decision,
     missing              |-> <<>>,
     issues               |-> issues,
     suggestions          |-> <<>>,
     professional_rewrite |-> {},
     notes                |-> <<>>]

\* StepService.reject_step(db, step_id, reason)
reject_step(step_id) ==
    IF step_id \notin Steps
    THEN Rejected("reject_step", step_id, "", 404)
    ELSE /\ Len(validations[step_id]) < MaxRows
         /\ UniqueOK(Append(validations[step_id],
                           ManualRow(step_id, "fail", << Msg("reason", 0, "") >>)))
         /\ status' = [status EXCEPT ![step_id] = "rejected"]
         /\ validations' = [validations EXCEPT ![step_id] =
               Append(@, ManualRow(step_id, "fail", << Msg("reason", 0, "") >>))]
         /\ last' = Response("reject_step", step_id, "", 200, 0, RaisedVerdict, NoSections)
         /\ UNCHANGED <<data, complaint_status, inflight, recent, aux>>

\* StepService.approve_step(db, step_id, validation_data) with an empty
\* validation_data: every .get() yields None
approve_step(step_id) ==
    IF step_id \notin Steps
    THEN Rejected("approve_step", step_id, "", 404)
    ELSE /\ Len(validations[step_id]) < MaxRows
         /\ UniqueOK(Append(validations[step_id], ManualRow(step_id, "pass", <<>>)))
         /\ status' = [status EXCEPT ![step_id] = "validated"]
         /\ validations' = [validations EXCEPT ![step_id] =
               Append(@, ManualRow(step_id, "pass", <<>>))]
         /\ last' = Response("approve_step", step_id, "", 200, 0, RaisedVerdict, NoSections)
         /\ UNCHANGED <<data, complaint_status, inflight, recent, aux>>

\* POST /validate-step: ChatbotService.validate_step(report_step_id, step_code,
\* step_data) with the three values of the request body. An empty or absent
\* step_data is replaced by the step's stored data (ValueError when the step
\* or its data is missing); the verdict is stored by store_validation, whose
\* commit fails on the foreign key when the step does not exist; the step's
\* status is not touched
validate_step(step_id, step_code, step_data) ==
    /\ request' = step_data
    /\ IF DOMAIN step_data = {} /\ step_id \notin Steps
       THEN /\ last' = Response("validate_step", step_id, "", 400, 0, RaisedVerdict, NoSections)
            /\ UNCHANGED <<db, inflight, recent, tables, pending, backend>>
       ELSE
       \E out \in ValidateOutcomes(step_code,
                    IF DOMAIN step_data = {} THEN data[step_id] ELSE step_data) :
         IF out.error # ""
         THEN /\ last' = Response("validate_step", step_id, "",
                                  IF out.error = "ValueError" THEN 400 ELSE 500,
                                  1, RaisedVerdict, NoSections)
              /\ UNCHANGED <<db, inflight, recent, tables, pending, backend>>
         ELSE IF step_id \notin Steps
         THEN /\ last' = Response("validate_step", step_id, "", 500, 1, RaisedVerdict, NoSections)
              /\ UNCHANGED <<db, inflight, recent, tables, pending, backend>>
         ELSE /\ \E stored \in store_validation(validations[step_id], step_id, out.verdict) :
                    validations' = [validations EXCEPT ![step_id] = stored]
              /\ last' = Response("validate_step", step_id, "", 200, 1, out.verdict, NoSections)
              /\ UNCHANGED <<status, data, complaint_status, inflight, recent, tables, pending,
                             backend>>

Next ==
    \/ \E step_id \in StepIdInputs : \E payload \in Payloads(step_id) :
          save_step_progress(step_id, payload)
    \/ \E step_id \in StepIdInputs : \E section_key \in SectionKeyInputs(step_id) :
          submit_section(step_id, section_key)
    \/ \E step_id \in StepIdInputs :
          submit_step(step_id)

\* one request at a time: every handler runs from its first line to its return
Spec == Init /\ [][Next]_vars

NextSections ==
    \/ \E step_id \in StepIdInputs : \E payload \in Payloads(step_id) :
          save_step_progress(step_id, payload)
    \/ \E step_id \in StepIdInputs : \E section_key \in SectionKeyInputs(step_id) :
          submit_section(step_id, section_key)

\* the per-section path alone: no full-step submit is ever issued
SpecSections == Init /\ [][NextSections]_vars

NextInFlight ==
    \/ \E step_id \in StepIdInputs : \E payload \in Payloads(step_id) :
          save_step_progress(step_id, payload)
    \/ \E step_id \in StepIdInputs : \E section_key \in SectionKeyInputs(step_id) :
          submit_section(step_id, section_key)
    \/ \E step_id \in StepIdInputs :
          SubmitStepRefused(step_id)
    \/ \E step_id \in Steps :
          submit_step_begin(step_id)
    \/ \E step_id \in Steps :
          submit_step_finish(step_id)

\* other requests are served while a submit_step waits for its validator
SpecInFlight == Init /\ [][NextInFlight]_vars

\* the step ids of the requests served next to the manual operations: the
\* step with sections, and an id no step has
ManualStepInputs == {"D4", UnknownStepId}

NextManual ==
    \/ \E step_id \in ManualStepInputs : \E payload \in Payloads(step_id) :
          save_step_progress(step_id, payload)
    \/ \E step_id \in ManualStepInputs : \E section_key \in SectionKeyInputs(step_id) :
          submit_section(step_id, section_key)
    \/ \E step_id \in ManualStepInputs :
          submit_step(step_id)
    \/ \E step_id \in ManualStepInputs :
          reject_step(step_id)
    \/ \E step_id \in ManualStepInputs :
          approve_step(step_id)
    \/ \E step_id \in ManualStepInputs :
          validate_step(step_id, step_id, EmptyDict)

\* one request at a time, with the manual reject / approve operations of
\* StepService and the direct validation endpoint
SpecManual == Init /\ [][NextManual]_vars

\* the second of the latest creation: the wall clock does not run backwards
LatestClock == tables.reports[Len(tables.reports)].report_number

\* POST /complaints: ComplaintService.create_complaint(db, payload) run at
\* second now with reference_number as the number drawn
create_complaint(reference_number, now) ==
    /\ Len(tables.complaints) < MaxComplaints
    /\ now >= LatestClock
    /\ tables' = TablesAfterCreateComplaint(tables, reference_number, now)
    /\ last' = Response("create_complaint", UnknownStepId, "",
                        IF tables' = tables THEN 500 ELSE 201, 0, RaisedVerdict, NoSections)
    /\ UNCHANGED <<db, inflight, recent, pending, request, backend>>

\* ReportService.create_report_from_complaint(db, complaint_id, user_id, report_data)
create_report_from_complaint(complaint_id, now) ==
    /\ now >= LatestClock
    /\ tables' = TablesAfterCreateReport(tables, complaint_id, now)
    /\ last' = Response("create_report_from_complaint", UnknownStepId, "",
                        IF tables' = tables THEN 500 ELSE 201, 0, RaisedVerdict, NoSections)
    /\ UNCHANGED <<db, inflight, recent, pending, request, backend>>

NextCreate ==
    \/ \E reference_number \in ReferenceNumbers : \E now \in Clock :
          create_complaint(reference_number, now)
    \/ \E complaint_id \in 1..(MaxComplaints + 1) : \E now \in Clock :
          create_report_from_complaint(complaint_id, now)

\* complaints and reports being created, one request at a time
SpecCreate == Init /\ [][NextCreate]_vars

\* team members of a /validate-step request body, which no schema constrains
TeamMember(name, function, department, role) ==
    JObj([name |-> name, function |-> function, department |-> department, role |-> role])

TeamMemberInputs ==
    { TeamMember(JStr("Ann"), JStr("lead"), JStr("quality"), JStr("team_leader")),
      TeamMember(JStr("bob"), JStr("op"), JStr("quality"), JStr("production")),
      TeamMember(JStr("ann"), JStr("op"), JStr("quality"), JStr("other")),
      TeamMember(JNull, JStr("op"), JStr("quality"), JStr("team_leader")),
      TeamMember(JStr(" "), JStr(""), JStr("quality"), JStr("boss")),
      JStr("eve") }

\* the longest team_members list of a request
MaxTeam == 2

RECURSIVE ListsUpTo(_, _)
ListsUpTo(S, n) ==
    IF n = 0 THEN {<<>>}
    ELSE LET shorter == ListsUpTo(S, n - 1)
         IN  shorter \cup {Append(l, m) : l \in shorter, m \in S}

\* the step_data documents of the D1 validation requests: a team list, a
\* team_members that is no list, and a document without team_members
TeamDocs ==
    {[team_members |-> JList(l)] : l \in ListsUpTo(TeamMemberInputs, MaxTeam)}
      \cup {[team_members |-> JStr("Ann")], [team |-> JList(<<>>)]}

NextValidate ==
    \E step_data \in TeamDocs :
       validate_step("D1", "D1", step_data)

\* the D1 step validated directly on the documents clients send
SpecValidate == Init /\ [][NextValidate]_vars

\* the JSON object a model reply holds for a verdict
VerdictObject(v) == JObj([k \in DOMAIN v |-> IF k = "decision" THEN JStr(v.decision) ELSE v[k]])

\* the replies of the model: a complete verdict, an object with nothing but
\* a decision, objects whose decision is absent, 'maybe' or a list, a JSON
\* value that is no object, and texts that are no JSON, with and without an
\* object inside
Replies ==
    { JsonText(VerdictObject(AIVerdict("fail", 1))),
      JsonText(JObj([decision |-> JStr("pass")])),
      JsonText(JObj([decision |-> JStr("maybe")])),
      JsonText(JObj([decision |-> JList(<< JStr("pass") >>)])),
      JsonText(JObj([suggestions |-> <<>>])),
      JsonText(JList(<< JStr("pass") >>)),
      ProseText("none", JNull),
      ProseText("object", JObj([decision |-> JStr("pass")])),
      ApiError }

\* the contents of the knowledge base: coaching for the step and its
\* sections, for the step only, none
KnowledgeBases ==
    { { <<"D4">>, <<"D4", "four_m_occurrence">>, <<"D4", "four_m_non_detection">> },
      { <<"D4">> },
      {} }

\* the step ids of the submits with a given backend: the step validated by
\* the model, and an id no step has
BackendStepInputs == {"D4", UnknownStepId}

\* StepService.submit_section(db, step_id, section_key) with the knowledge
\* base as it is and the model answering reply
submit_section_with(step_id, section_key, reply) ==
    IF step_id \notin Steps
    THEN Rejected("submit_section", step_id, section_key, 404)
    ELSE IF SectionGuardFails(status[step_id], step_id, section_key)
    THEN Rejected("submit_section", step_id, section_key, 400)
    ELSE
    LET run == ValidateRun(<< step_id, section_key >>,
                           SectionSlice(data[step_id], get_section_fields(step_id, section_key)),
                           backend.kb, reply)
    IN  /\ backend' = run
        /\ IF run.error # ""
           THEN /\ last' = Response("submit_section", step_id, section_key,
                                    ErrorStatus(run.error), 1, RaisedVerdict, NoSections)
                /\ UNCHANGED <<db, inflight, recent, tables, pending, request>>
           ELSE
           \E stored \in _upsert_section_validation(validations[step_id], step_id, section_key,
                                                     run.verdict) :
              /\ SubmitSectionFinish(step_id, section_key, run.verdict, stored)
              /\ UNCHANGED pending

\* StepService.submit_step(db, step_id) with the knowledge base as it is and
\* the model answering reply
submit_step_with(step_id, reply) ==
    \/ SubmitStepRefused(step_id)
    \/ /\ SubmitStepAccepted(step_id)
       /\ LET run == ValidateRun(<< step_id >>, data[step_id], backend.kb, reply)
          IN  /\ backend' = run
              /\ IF run.error # ""
                 THEN /\ status' = [status EXCEPT ![step_id] = StatusAfterError("submitted")]
                      /\ last' = Response("submit_step", step_id, "", ErrorStatus(run.error), 1,
                                          RaisedVerdict, NoSections)
                      /\ UNCHANGED <<data, validations, complaint_status, inflight, recent,
                                     tables, pending, request>>
                 ELSE /\ \E stored \in store_validation(validations[step_id], step_id,
                                                         run.verdict) :
                            validations' = [validations EXCEPT ![step_id] = stored]
                      /\ status' = [status EXCEPT ![step_id] =
                                       StatusAfterStep(run.verdict.decision)]
                      /\ complaint_status' = ComplaintAfter(complaint_status, step_id,
                                                            run.verdict.decision = "pass")
                      /\ last' = Response("submit_step", step_id, "", 200, 1, run.verdict,
                                          NoSections)
                      /\ UNCHANGED <<data, inflight, recent, tables, pending, request>>

NextBackend ==
    \/ \E step_id \in BackendStepInputs : \E payload \in Payloads(step_id) :
          save_step_progress(step_id, payload)
    \/ \E step_id \in BackendStepInputs : \E section_key \in SectionKeyInputs(step_id) :
          \E reply \in Replies :
             submit_section_with(step_id, section_key, reply)
    \/ \E step_id \in BackendStepInputs :
          \E reply \in Replies :
             submit_step_with(step_id, reply)

\* the knowledge base is a table none of the operations writes: it is any of
\* KnowledgeBases from the start
InitBackend == \E kb \in KnowledgeBases : InitWith(kb)

\* one request at a time, the knowledge base and the model's reply of every
\* validator call being known
SpecBackend == InitBackend /\ [][NextBackend]_vars

NextRace ==
    \/ \E step_id \in RaceStepInputs : \E payload \in Payloads(step_id) :
          save_step_progress(step_id, payload)
    \/ \E r \in Requests : \E step_id \in RaceStepInputs :
          \E section_key \in SectionKeyInputs(step_id) :
             submit_section_begin(r, step_id, section_key)
    \/ \E r \in Requests :
          submit_section_commit(r)

\* two callers submit sections at the same time, each in its own session
SpecRace == Init /\ [][NextRace]_vars

\* one request at a time, seen commit by commit: while a submit_step is
\* between its two commits nothing else runs
NextCommits ==
    \/ /\ inflight = {}
       /\ \/ \E step_id \in StepIdInputs : \E payload \in Payloads(step_id) :
                save_step_progress(step_id, payload)
          \/ \E step_id \in StepIdInputs : \E section_key \in SectionKeyInputs(step_id) :
                submit_section(step_id, section_key)
          \/ \E step_id \in StepIdInputs :
                SubmitStepRefused(step_id)
          \/ \E step_id \in Steps :
                submit_step_begin(step_id)
    \/ \E step_id \in inflight :
          submit_step_finish(step_id)

SpecCommits == Init /\ [][NextCommits]_vars

TypeOK ==
    /\ status \in [Steps -> {"draft", "submitted", "validated", "rejected"}]
    /\ \A s \in Steps : \A i \in DOMAIN validations[s] :
          /\ validations[s][i].report_step_id = s
          /\ validations[s][i].decision \in Decisions

----------------------------------------------------------------------------
(* Properties.                                                             *)

HasSections(s) == Len(STEP_SECTIONS(s)) > 0

\* the rows of a step's table rows that carry section key k
RowsIn(tbl, k) == {i \in DOMAIN tbl : tbl[i].section_key = k}

PassIn(tbl, k) == \E i \in RowsIn(tbl, k) : tbl[i].decision = "pass"

AllPassIn(tbl, s) == \A k \in SectionKeySet(s) : PassIn(tbl, k)

StoredPass(s, k) == PassIn(validations[s], k)

AllSectionsStoredPass(s) == AllPassIn(validations[s], s)

\* the last completed call is a submit_section that stored its verdict
SectionSubmitDone == last.op = "submit_section" /\ last.http = 200

\* C1 as stated: in every reachable state, a step with registered sections
\* that is 'validated' has a stored 'pass' row for every configured section.
C1_PassGateEveryPath ==
    \A s \in Steps :
       (HasSections(s) /\ status[s] = "validated") => AllSectionsStoredPass(s)

\* C1 amended: a submit_section call leaves a step 'validated' only when every
\* configured section of the step has a stored 'pass' row (a passing
\* submit_step validates on the full-step verdict alone).
C1_PassGateSectionPath ==
    (SectionSubmitDone /\ status[last.step_id] = "validated")
       => AllSectionsStoredPass(last.step_id)

C1_Witness ==
    /\ SectionSubmitDone
    /\ status[last.step_id] = "validated"
    /\ AllSectionsStoredPass(last.step_id)

\* C2: an accepted submit_section validates the step and sets the complaint's
\* status to the step's code iff every configured section has a stored 'pass'
\* after the upsert; otherwise both statuses stay; a validated step never
\* leaves 'validated', so the transition happens at most once.
C2_SectionAggregation ==
    [][ /\ (last'.op = "submit_section" /\ last'.http = 200) =>
             LET s == last'.step_id
             IN  IF AllPassIn(validations'[s], s)
                 THEN /\ status'[s] = "validated"
                      /\ complaint_status' = s
                      /\ last'.remaining_sections = <<>>
                 ELSE /\ status' = status
                      /\ complaint_status' = complaint_status
                      /\ last'.remaining_sections # <<>>
        /\ \A s \in Steps : status[s] = "validated" => status'[s] = "validated" ]_vars

C2_Witness ==
    /\ SectionSubmitDone
    /\ last.all_sections_passed
    /\ Len(last.passed_sections) = Len(get_all_section_keys(last.step_id))
    /\ status[last.step_id] = "validated"
    /\ complaint_status = last.step_id

\* C3: a submit_section whose verdict is 'fail' changes neither the step's nor
\* the complaint's status; a submit_section that returns 'pass' while every
\* other section of the step has a stored 'pass' returns all_sections_passed,
\* leaves the step 'validated' and the complaint at the step's code.
C3_FailKeepsStatus ==
    [][ (last'.op = "submit_section" /\ last'.http = 200) =>
          LET s == last'.step_id
              k == last'.section_key
          IN  /\ last'.validation.decision = "fail" =>
                    /\ status' = status
                    /\ complaint_status' = complaint_status
                    /\ ~last'.all_sections_passed
              /\ ( /\ last'.validation.decision = "pass"
                   /\ \A k2 \in SectionKeySet(s) \ {k} : StoredPass(s, k2) ) =>
                    /\ last'.all_sections_passed
                    /\ status'[s] = "validated"
                    /\ complaint_status' = s ]_vars

\* the only section still missing has just failed
C3_Witness ==
    /\ SectionSubmitDone
    /\ last.validation.decision = "fail"
    /\ \A k2 \in SectionKeySet(last.step_id) \ {last.section_key} : StoredPass(last.step_id, k2)
    /\ status[last.step_id] \in {"draft", "rejected"}
    /\ complaint_status # last.step_id

C5_StepVerdictOutcome ==
    [][ (last'.op = "submit_step" /\ last'.http = 200) =>
          LET s == last'.step_id
          IN  /\ last'.validation.decision = "pass" =>
                    /\ status'[s] = "validated"
                    /\ complaint_status' = s
              /\ last'.validation.decision = "fail" =>
                    /\ status'[s] = "rejected"
                    /\ complaint_status' = complaint_status ]_vars

\* a failing full-step submit after another step had advanced the complaint
C5_Witness ==
    /\ last.op = "submit_step"
    /\ last.http = 200
    /\ last.validation.decision = "fail"
    /\ status[last.step_id] = "rejected"
    /\ complaint_status \in Steps \ {last.step_id}

\* C6: a submit_step whose validator raised ends with the step in 'draft', and
\* no completed call leaves any step in 'submitted'.
C6_NeverStuckSubmitted ==
    /\ (last.op = "submit_step" /\ last.validator_calls = 1 /\ last.http # 200)
          => status[last.step_id] = "draft"
    /\ \A s \in Steps : status[s] # "submitted"

C6_Witness ==
    /\ last.op = "submit_step"
    /\ last.validator_calls = 1
    /\ last.http \in {500, 503}
    /\ status[last.step_id] = "draft"
    /\ validations[last.step_id] # <<>>

\* C7: a submit_step on a draft step whose required-fields pre-check yields
\* false is answered 422 without a validator call, and step status, verdict
\* rows and complaint status are unchanged.
C7_PreCheckBlocksValidator ==
    [][ \A s \in Steps :
          ( /\ vars' # vars
            /\ inflight' = inflight
            /\ last'.op = "submit_step"
            /\ last'.step_id = s
            /\ status[s] = "draft"
            /\ _validate_required_fields(s, data[s]) = "false" ) =>
              /\ last'.http = 422
              /\ last'.validator_calls = 0
              /\ status'[s] = "draft"
              /\ UNCHANGED <<status, validations, complaint_status>> ]_vars

\* a refused full-step submit of a step that already holds a section verdict
C7_Witness ==
    /\ last.op = "submit_step"
    /\ last.http = 422
    /\ last.validator_calls = 0
    /\ status[last.step_id] = "draft"
    /\ validations[last.step_id] # <<>>

\* C8: submit_step is accepted only from 'draft' or 'rejected'; on a
\* 'submitted' or 'validated' step it is answered 400 without a validator
\* call and without a change of step status, verdict rows or complaint status.
C8_StepGuard ==
    [][ \A s \in Steps :
          /\ s \in inflight' \ inflight => status[s] \in {"draft", "rejected"}
          /\ ( /\ vars' # vars
               /\ inflight' = inflight
               /\ last'.op = "submit_step"
               /\ last'.step_id = s ) =>
                 IF status[s] \in {"submitted", "validated"}
                 THEN /\ last'.http = 400
                      /\ last'.validator_calls = 0
                      /\ UNCHANGED <<status, validations, complaint_status>>
                 ELSE last'.http # 400 ]_vars

\* a full-step submit refused while an earlier one is still being validated
C8_Witness ==
    /\ last.op = "submit_step"
    /\ last.http = 400
    /\ last.step_id \in inflight
    /\ status[last.step_id] = "submitted"

C10_UpsertKeepsOneRow ==
    SectionSubmitDone =>
       LET tbl  == validations[last.step_id]
           rows == RowsIn(tbl, last.section_key)
           v    == last.validation
       IN  /\ Cardinality(rows) = 1
           /\ \A i \in rows :
                 /\ tbl[i].report_step_id = last.step_id
                 /\ tbl[i].decision = v.decision
                 /\ tbl[i].missing = v.missing_fields
                 /\ tbl[i].issues = v.incomplete_fields \o v.quality_issues \o v.rules_violations
                 /\ tbl[i].suggestions = v.suggestions
                 /\ JsonLoads(tbl[i].professional_rewrite) = v.field_improvements
                 /\ tbl[i].notes = << v.overall_assessment >>

\* the row of the section just submitted is older than another section's row:
\* it existed before this call, which therefore overwrote it
C10_Witness ==
    /\ SectionSubmitDone
    /\ \E i, j \in DOMAIN validations[last.step_id] :
          /\ i < j
          /\ validations[last.step_id][i].section_key = last.section_key
          /\ validations[last.step_id][j].section_key \notin {NullKey, last.section_key}

\* C11: in every state reachable through submit_step, submit_section,
\* reject_step, approve_step and validate_step there is at most one verdict
\* row per (step, section key), the full-step row (NULL key) counting as one.
C11_OneRowPerPair ==
    \A s \in Steps : \A k \in SectionKeySet(s) \cup {NullKey} :
       Cardinality(RowsIn(validations[s], k)) <= 1

\* C12: a full-step submit that got a verdict leaves every per-section row of
\* the step as it was, and the full-step row (NULL key) read afterwards holds
\* the decision just produced.
C12_FullStepRowOnly ==
    [][ (last'.op = "submit_step" /\ last'.http = 200) =>
          LET s == last'.step_id
          IN  /\ SectionRows(validations'[s], s) = SectionRows(validations[s], s)
              /\ get_step_validation(validations'[s], s) = {last'.validation.decision} ]_vars

\* C13: save_step_progress is not refused because of the step's status
\* (draft, submitted, validated or rejected) and changes only the data of the
\* step it names: every step's status, every verdict row and the complaint's
\* status are as before, so a stored 'pass' survives a change of the data.
C13_SaveChangesOnlyData ==
    [][ (last'.op = "save_step_progress" /\ inflight' = inflight) =>
          /\ UNCHANGED <<status, validations, complaint_status>>
          /\ \A s \in Steps \ {last'.step_id} : data'[s] = data[s]
          /\ last'.step_id \in Steps => last'.http \in {200, 422} ]_vars

\* a save accepted on a validated step: the stored verdict is still 'pass'
\* while the data now held would fail the validator
C13_Witness ==
    /\ last.op = "save_step_progress"
    /\ last.http = 200
    /\ last.step_id = "D1"
    /\ status["D1"] = "validated"
    /\ get_step_validation(validations["D1"], "D1") = {"pass"}
    /\ D1LocalValidator_validate(data["D1"]).decision = "fail"

\* C14: an accepted save merges on top-level keys: for the payload P that was
\* sent, every key of P holds P's value (as the schema serialises it) and every
\* key of the previous data that P does not name keeps its value, keys of the
\* step's schema included.
C14_SaveMergesTopLevel ==
    [][ (last'.op = "save_step_progress" /\ last'.http = 200) =>
          LET s == last'.step_id
          IN  \E P \in Payloads(s) :
                 /\ SchemaValid(s, P)
                 /\ \A k \in DOMAIN P : data'[s][k] = SchemaDump(s, P)[k]
                 /\ \A k \in (DOMAIN data[s]) \ (DOMAIN P) :
                       k \in DOMAIN data'[s] /\ data'[s][k] = data[s][k] ]_vars

\* the position of a step code in the report's step order
StepIndex(code) == CHOOSE i \in 1..Len(StepCodes) : StepCodes[i] = code

ValidatedSteps == {s \in Steps : status[s] = "validated"}

\* C15: once some step is validated, the complaint's status is the furthest
\* (highest) code among the validated steps, whatever the order in which the
\* steps were validated.
C15_ComplaintAtFurthestStep ==
    ValidatedSteps # {} =>
       /\ complaint_status \in ValidatedSteps
       /\ \A s \in ValidatedSteps : StepIndex(s) <= StepIndex(complaint_status)

\* C16 as stated: a step's status becomes 'validated' or 'rejected' only from
\* 'submitted', and becomes 'draft' again only from 'submitted', inside a
\* submit_step.
C16_OnlyThroughSubmitted ==
    [][ \A s \in Steps :
          /\ (status'[s] # status[s] /\ status'[s] \in {"validated", "rejected"})
                => status[s] = "submitted"
          /\ (status'[s] # status[s] /\ status'[s] = "draft")
                => (status[s] = "submitted" /\ last'.op = "submit_step") ]_vars

\* C16 amended: submit_step takes a step from 'draft' or 'rejected' to
\* 'submitted' and from there to 'validated', 'rejected' or (validator error)
\* back to 'draft'; submit_section takes a step to 'validated' directly from
\* 'draft' or 'rejected', without 'submitted' in between, and never to
\* 'rejected'; save_step_progress changes no status.
C16_StatusTransitions ==
    [][ \A s \in Steps :
          status'[s] # status[s] =>
             \/ /\ status[s] \in {"draft", "rejected"}
                /\ status'[s] = "submitted"
                /\ inflight' = inflight \cup {s}
             \/ /\ status[s] = "submitted"
                /\ status'[s] \in {"validated", "rejected", "draft"}
                /\ last'.op = "submit_step"
                /\ inflight' = inflight \ {s}
             \/ /\ status[s] \in {"draft", "rejected"}
                /\ status'[s] = "validated"
                /\ last'.op = "submit_section"
                /\ last'.all_sections_passed ]_vars

\* a step validated by submit_section on the verdict of its last section: no
\* submit_step is between its commits and the step was never 'submitted'
C16_Witness ==
    /\ inflight = {}
    /\ last.op = "submit_section"
    /\ last.all_sections_passed
    /\ status[last.step_id] = "validated"
    /\ \A k \in SectionKeySet(last.step_id) : recent[last.step_id][k] = "pass"

\* the ReportStep rows of a report
StepsOf(report_id) ==
    {i \in DOMAIN tables.report_steps : tables.report_steps[i].report_id = report_id}

DecisionsOf(tbl) == [i \in DOMAIN tbl |-> tbl[i].decision]

\* C17: with requests served one at a time, a 'validated' step stays
\* 'validated', the decisions of its verdict rows stay as they are, and a call
\* on that step does not change the complaint's status.
C17_ValidatedIsTerminal ==
    [][ \A s \in Steps :
          status[s] = "validated" =>
             /\ status'[s] = "validated"
             /\ DecisionsOf(validations'[s]) = DecisionsOf(validations[s])
             /\ last'.step_id = s => complaint_status' = complaint_status ]_vars

\* a submit refused on a validated step after another step's validation had
\* moved the complaint's status on
C17_Witness ==
    /\ last.op \in {"submit_step", "submit_section"}
    /\ last.http = 400
    /\ status[last.step_id] = "validated"
    /\ complaint_status \in Steps \ {last.step_id}

\* C19: a submit_section request that overlaps another one for the same
\* (step, section) completes without error, and when it has committed exactly
\* one row for the pair remains, holding the verdict of this, the last
\* committer; also when neither request had found a row.
C19_LastCommitWins ==
    [][ \A r \in DOMAIN pending :
          r \notin DOMAIN pending' =>
             LET p   == pending[r]
                 tbl == validations'[p.step_id]
             IN  /\ last'.http = 200
                 /\ Cardinality(RowsIn(tbl, p.section_key)) = 1
                 /\ \A i \in RowsIn(tbl, p.section_key) :
                       tbl[i] = VerdictRow(p.step_id, p.section_key, p.verdict) ]_vars

\* the section keys registered for any step code
AllSectionKeys == UNION {SectionKeySet(StepCodes[i]) : i \in DOMAIN StepCodes}

\* a step code outside the catalog and a section key no code registers
SliceCodeInputs == SeqToSet(StepCodes) \cup {"D9"}
SliceKeyInputs == AllSectionKeys \cup {"no_such_section"}

\* C20: for every step code and section key of the catalog and every stored
\* step data document, the empty one included, the section slice has exactly
\* the configured field names of the section as keys; a field the document
\* has carries the document's value and a field it lacks is present as null.
\* For a code without sections or a key the code does not register,
\* get_section_fields raises (<<>> in the model) instead of returning fields.
C20_SliceHasConfiguredFields ==
    \A s \in Steps : \A code \in SliceCodeInputs : \A key \in SliceKeyInputs :
       LET fields == get_section_fields(code, key)
           slice  == SectionSlice(data[s], fields)
           sec    == STEP_SECTIONS(code)
       IN  IF \E j \in DOMAIN sec : sec[j][1] = key
           THEN \E j \in DOMAIN sec :
                   /\ sec[j][1] = key
                   /\ Len(sec[j][2]) > 0
                   /\ DOMAIN slice = SeqToSet(sec[j][2])
                   /\ \A k \in SeqToSet(sec[j][2]) :
                         slice[k] = IF k \in DOMAIN data[s] THEN data[s][k] ELSE JNull
           ELSE fields = <<>>

\* submit_section has just validated a slice of a D4 document that holds a
\* root cause, and the same document lacks the fields of the D8 closure
\* section, which its slice carries as nulls
C20_Witness ==
    /\ last.op = "submit_section" /\ last.http = 200 /\ last.step_id = "D4"
    /\ SectionSlice(data["D4"], get_section_fields("D4", "four_m_occurrence"))
          .root_cause_occurrence # JNull
    /\ "closure_statement" \notin DOMAIN data["D4"]
    /\ SectionSlice(data["D4"], get_section_fields("D8", "closure")).closure_statement = JNull

\* the latest call was a D1 validation of a document whose team_members is a list
ValidatedTeam == last.op = "validate_step" /\ "team_members" \in DOMAIN request
                    /\ request.team_members.kind = "list"

RequestTeam == request.team_members.l

TeamLeaders(team) ==
    {i \in DOMAIN team : team[i].kind = "obj" /\ Get(team[i].o, "role") = JStr("team_leader")}

\* name, function, department and role are strings other than ""
MemberNonEmpty(m) ==
    /\ m.kind = "obj"
    /\ \A k \in {"name", "function", "department", "role"} :
          Get(m.o, k).kind = "str" /\ Get(m.o, k).s # ""

\* ... and other than "" after trimming
MemberNonEmptyTrimmed(m) ==
    /\ MemberNonEmpty(m)
    /\ \A k \in {"name", "function", "department", "role"} : Strip(m.o[k].s) # ""

MemberRoleValid(m) ==
    m.o.role.s \in {"production", "maintenance", "engineering", "logistics", "team_leader", "other"}

\* C21 as stated: a list of 2 or more members, every member with non-empty
\* name, function, department and role (read as non-empty after trimming),
\* every role one of the 6 valid roles and exactly one team_leader, is given
\* 'pass'.
C21_WellFormedTeamPasses ==
    ( /\ ValidatedTeam
      /\ Len(RequestTeam) >= 2
      /\ \A i \in DOMAIN RequestTeam :
            MemberNonEmptyTrimmed(RequestTeam[i]) /\ MemberRoleValid(RequestTeam[i])
      /\ Cardinality(TeamLeaders(RequestTeam)) = 1 )
       => (last.http = 200 /\ last.validation.decision = "pass")

\* C21 amended: a list of 2 or more members, every member with name,
\* function, department and role non-empty after trimming, every role one of
\* the 6 valid roles, exactly one team_leader and no two members with the
\* same name (compared trimmed and without case), is given 'pass'.
C21_DistinctTrimmedTeamPasses ==
    ( /\ ValidatedTeam
      /\ Len(RequestTeam) >= 2
      /\ \A i \in DOMAIN RequestTeam :
            MemberNonEmptyTrimmed(RequestTeam[i]) /\ MemberRoleValid(RequestTeam[i])
      /\ Cardinality(TeamLeaders(RequestTeam)) = 1
      /\ \A i, j \in DOMAIN RequestTeam :
            Lower(Strip(RequestTeam[i].o.name.s)) = Lower(Strip(RequestTeam[j].o.name.s))
               => i = j )
       => (last.http = 200 /\ last.validation.decision = "pass")

\* a team of two well-formed members with distinct names and one leader has
\* been validated and passed
C21_Witness ==
    /\ ValidatedTeam
    /\ Len(RequestTeam) >= 2
    /\ \A i \in DOMAIN RequestTeam :
          MemberNonEmptyTrimmed(RequestTeam[i]) /\ MemberRoleValid(RequestTeam[i])
    /\ Cardinality(TeamLeaders(RequestTeam)) = 1
    /\ \A i, j \in DOMAIN RequestTeam :
          Lower(Strip(RequestTeam[i].o.name.s)) = Lower(Strip(RequestTeam[j].o.name.s))
             => i = j
    /\ last.validation.decision = "pass"

HasMsg(list, m) == \E i \in DOMAIN list : list[i].msg = m

\* C22: every team_members list of size 0 or 1 is given 'fail', and every list
\* in which two or more members have role team_leader is given 'fail' with
\* the too-many-leaders quality issue, whatever the other fields contain.
C22_ShortOrTwoLeadersFails ==
    ValidatedTeam =>
       /\ Len(RequestTeam) < 2 =>
             (last.http = 200 /\ last.validation.decision = "fail")
       /\ Cardinality(TeamLeaders(RequestTeam)) >= 2 =>
             /\ last.http = 200
             /\ last.validation.decision = "fail"
             /\ HasMsg(last.validation.quality_issues, "too_many_leaders")

\* C23: whenever the validator returns a verdict for a team_members list, the
\* verdict has the no-team-leader incompleteness entry and its suggestion if
\* no member has role team_leader, and the too-many-leaders quality issue if
\* more than one member has it.
C23_LeaderCountEntries ==
    (ValidatedTeam /\ last.http = 200) =>
       /\ Cardinality(TeamLeaders(RequestTeam)) = 0 =>
             /\ HasMsg(last.validation.incomplete_fields, "no_team_leader")
             /\ HasMsg(last.validation.suggestions, "assign_team_leader")
       /\ Cardinality(TeamLeaders(RequestTeam)) > 1 =>
             HasMsg(last.validation.quality_issues, "too_many_leaders")

ReplyHasVerdict(reply) ==
    /\ reply.form = "json" \/ (reply.form = "prose" /\ reply.span = "object")
    /\ reply.v.kind = "obj"
    /\ Get(reply.v.o, "decision") \in {JStr("pass"), JStr("fail")}

\* the step taken is a submit that invoked the validator
SubmitRan == last'.op \in {"submit_section", "submit_step"} /\ last'.validator_calls = 1

\* C25: a submit whose validator received from the model anything but an
\* object with decision 'pass' or 'fail' has the parser raise the
\* malformed-response error (ValueError), ends in an error, writes or
\* modifies no verdict row and does not give the step 'validated' or
\* 'rejected'.
C25_MalformedReplyIsTypedError ==
    [][ (SubmitRan /\ backend'.prompted /\ backend'.reply # ApiError
           /\ ~ReplyHasVerdict(backend'.reply)) =>
          /\ backend'.error = "ValueError"
          /\ last'.http >= 500
          /\ validations' = validations
          /\ \A s \in Steps :
                status'[s] \in {"validated", "rejected"} => status'[s] = status[s] ]_vars

\* the verdict a reply with nothing but a decision parses to, every other
\* field empty
EmptyVerdict(decision, language) ==
    [decision           |-> decision,
     missing_fields     |-> <<>>,
     incomplete_fields  |-> <<>>,
     quality_issues     |-> <<>>,
     rules_violations   |-> <<>>,
     suggestions        |-> <<>>,
     field_improvements |-> [k \in {} |-> ""],
     overall_assessment |-> Note("", 0),
     language_detected  |-> language]

DecisionOnly(reply) ==
    /\ reply.form = "json" /\ reply.v.kind = "obj"
    /\ DOMAIN reply.v.o = {"decision"}
    /\ reply.v.o.decision \in {JStr("pass"), JStr("fail")}

C27_MissingCoachingIsHardFailure ==
    [][ ( /\ last'.op = "submit_section" /\ last'.validator_calls = 1
          /\ << last'.step_id, last'.section_key >> \notin backend'.kb ) =>
          /\ last'.http >= 500
          /\ ~backend'.prompted
          /\ validations' = validations ]_vars

\* C28: every submit operation applies its writes (verdict row, step status,
\* complaint status, summary row) in one commit, so no committed state lies
\* between the writes of one operation: the status 'submitted', which
\* submit_step writes before its verdict exists, is never a committed value
\* and no submit_step is between two of its commits.
C28_AllOrNothing ==
    /\ inflight = {}
    /\ \A s \in Steps : status[s] # "submitted"

\* C29: under every interleaving of a full-step submit with section submits
\* on the same step, a status committed as 'validated' is not afterwards
\* changed to 'rejected' or 'draft' by the full-step submit that was still in
\* flight.
C29_ValidatedNotRevoked ==
    [][ \A s \in Steps :
          status[s] = "validated" => status'[s] \notin {"rejected", "draft"} ]_vars

\* root_cause and validation_method of a root-cause conclusion are strings
\* that are non-empty after trimming
ConclusionFilled(doc, k) ==
    /\ k \in DOMAIN doc /\ doc[k].kind = "obj"
    /\ \A f \in {"root_cause", "validation_method"} :
          /\ f \in DOMAIN doc[k].o
          /\ doc[k].o[f].kind = "str"
          /\ Strip(doc[k].o[f].s) # ""

\* C30: for every stored data document, a required text field that is
\* present with a null value included, the required-fields pre-check of
\* submit_step yields true or false without raising, no submit_step ends in
\* a server error before the validator is called, and for D4 the pre-check
\* yields true exactly when root_cause and validation_method are non-empty
\* after trimming in both root_cause_occurrence and root_cause_non_detection.
C30_PreCheckNeverRaises ==
    /\ \A s \in Steps : _validate_required_fields(s, data[s]) \in {"true", "false"}
    /\ ~(last.op = "submit_step" /\ last.http = 500 /\ last.validator_calls = 0)
    /\ _validate_required_fields("D4", data["D4"]) = "true"
          <=> ( /\ ConclusionFilled(data["D4"], "root_cause_occurrence")
                /\ ConclusionFilled(data["D4"], "root_cause_non_detection") )

====
